---------------------------- MODULE Spec2Model ----------------------------
(***************************************************************************)
(* A model of pdf2csv: the row normaliser of fix_csv.py and the record     *)
(* extractor of pdf2csv.py.                                                *)
(*                                                                         *)
(* A Python str is modelled as a sequence of one-character strings, so     *)
(* that regular expressions, str.split and str.startswith are computed     *)
(* character by character, as the interpreter computes them.  A Python     *)
(* list is a sequence; Python's index i is the sequence's index i + 1.     *)
(***************************************************************************)
EXTENDS Integers, Sequences, FiniteSets, TLC

VARIABLES
    pc,        \* position of the running function
    exc,       \* the exception that left the function, or "none"
    fields,    \* normalize_row: its argument
    fixed,     \* normalize_row: its return value
    lines,     \* parse_records_from_lines: its argument
    idx,       \* parse_records_from_lines: index of the next line of the loop
    records,   \* parse_records_from_lines: the local list of records
    returned,  \* parse_records_from_lines: the returned list
    argv,      \* fix_csv.main: number of command-line arguments
    src,       \* fix_csv.main: the rows of the input CSV, header line first
    reader,    \* fix_csv.main: number of rows the reader has handed out
    written,   \* fix_csv.main: rows written to the output CSV
    rc,        \* fix_csv.main: its return code, -1 while running
    filename,  \* detect_amount_from_filename: its argument
    amount     \* detect_amount_from_filename: its return value

vars == <<pc, exc, fields, fixed, lines, idx, records, returned,
          argv, src, reader, written, rc, filename, amount>>

normVars == <<fields, fixed>>
parseVars == <<lines, idx, records, returned>>
mainVars == <<argv, src, reader, written, rc>>
amountVars == <<filename, amount>>

---------------------------------------------------------------------------
(* Characters and the character classes of Python's re and str.            *)

\* \d of re, among the characters of the inputs below.
Digits == {"0", "1", "2", "3", "4", "5", "6", "7", "8", "9"}

\* \s of re and the separators of str.split(): the whitespace characters
\* among the characters of the inputs below, which are ASCII.
Whitespace == {" ", "\t", "\n"}

IsDigit(c) == c \in Digits

IsSpace(c) == c \in Whitespace

\* s[i:j] of Python, on 0-based half-open bounds with 0 <= i.
Slice(s, i, j) ==
    IF j <= i THEN <<>> ELSE SubSeq(s, i + 1, IF j > Len(s) THEN Len(s) ELSE j)

\* All of s[i:j] are digits and the slice is j - i characters long.
AllDigits(s, i, j) ==
    /\ j <= Len(s)
    /\ \A k \in (i + 1)..j : IsDigit(s[k])

\* The number of consecutive digits of s from 0-based position i on.
RECURSIVE DigitRun(_, _)
DigitRun(s, i) ==
    IF i < Len(s) /\ IsDigit(s[i + 1]) THEN 1 + DigitRun(s, i + 1) ELSE 0

\* The number of consecutive whitespace characters of s from position i on.
RECURSIVE SpaceRun(_, _)
SpaceRun(s, i) ==
    IF i < Len(s) /\ IsSpace(s[i + 1]) THEN 1 + SpaceRun(s, i + 1) ELSE 0

\* s.startswith(p, i)
StartsWithAt(s, p, i) ==
    /\ i + Len(p) <= Len(s)
    /\ \A k \in 1..Len(p) : s[i + k] = p[k]

\* $ of re without MULTILINE at 0-based position i: the end of the string,
\* or just before a newline that is the string's last character.
AtDollar(s, i) ==
    \/ i = Len(s)
    \/ i = Len(s) - 1 /\ s[Len(s)] = "\n"

---------------------------------------------------------------------------
(* fix_csv.py                                                              *)

EXPECTED_HEADER ==
    << "STATUS", "END TO END ID", "MERCHANT", "AMOUNT", "DUE DATE",
       "CUSTOMER BIC", "CUSTOMER IBAN", "CUSTOMER NAME", "CUSTOMER ID",
       "ADDITIONAL INFO 1", "ADDITIONAL INFO 2", "IMPORTED DATE",
       "MANDATE REFERENCE", "TRANSACTION INFORMATION",
       "TRANSACTION TYPE NAME", "ERROR CODE", "ERROR REASON",
       "MERCHANT PRODUCT NAME", "HAS CHARGEBACK" >>

\* MANDATE_LIKE_RE.match(v): ^\d{6,}-\d{4}-\d{2}-\d{2}$
\* The greedy \d{6,} takes the whole digit run: the next character must be
\* "-", which no shorter run is followed by.
MANDATE_LIKE_RE(v) ==
    LET n == DigitRun(v, 0)
    IN  /\ n >= 6
        /\ StartsWithAt(v, <<"-">>, n)
        /\ AllDigits(v, n + 1, n + 5)
        /\ StartsWithAt(v, <<"-">>, n + 5)
        /\ AllDigits(v, n + 6, n + 8)
        /\ StartsWithAt(v, <<"-">>, n + 8)
        /\ AllDigits(v, n + 9, n + 11)
        /\ AtDollar(v, n + 11)

\* A mutant of NewFixed: the list is one slot short of the header.
NewFixedShort(n) == [fixed |-> [i \in 1..(n - 1) |-> <<>>], exc |-> "none"]

\* The running state of normalize_row's repair: the list fixed and the
\* exception raised so far.
NewFixed(n) == [fixed |-> [i \in 1..n |-> <<>>], exc |-> "none"]

\* fixed[i] = v: IndexError when i is not an index of the list.
SetItem(st, i, v) ==
    IF st.exc # "none" THEN st
    ELSE IF i >= 0 /\ i < Len(st.fixed)
         THEN [st EXCEPT !.fixed[i + 1] = v]
         ELSE [st EXCEPT !.exc = "IndexError"]

Min(a, b) == IF a < b THEN a ELSE b

\* A mutant of CopyPrefix: the copy stops one column early.
CopyPrefixEight(st, row) ==
    LET F[i \in 0..8] ==
            IF i = 0 THEN st
            ELSE IF i <= Len(row) THEN SetItem(F[i - 1], i - 1, row[i])
            ELSE F[i - 1]
    IN  F[8]

\* for i in range(min(9, len(fields))): fixed[i] = fields[i]
RECURSIVE CopyLoop(_, _, _, _)
CopyLoop(st, row, i, n) ==
    IF i >= n THEN st ELSE CopyLoop(SetItem(st, i, row[i + 1]), row, i + 1, n)

CopyPrefix(st, row) == CopyLoop(st, row, 0, Min(9, Len(row)))

\* A mutant of IdDateIdx: the last matching value instead of the first.
IdDateIdxLast(row) ==
    LET hits == {i \in 0..(Len(row) - 1) : MANDATE_LIKE_RE(row[i + 1])}
    IN  IF hits = {} THEN -1
        ELSE CHOOSE i \in hits : \A j \in hits : i >= j

\* next((i for i, v in enumerate(fields) if MANDATE_LIKE_RE.match(v or "")), None)
\* as a 0-based index, -1 for None.
IdDateIdx(row) ==
    LET hits == {i \in 0..(Len(row) - 1) : MANDATE_LIKE_RE(row[i + 1])}
    IN  IF hits = {} THEN -1
        ELSE CHOOSE i \in hits : \A j \in hits : i <= j

\* if id_date_idx is not None: fixed[13] = fields[id_date_idx]
PlaceMandate(st, row) ==
    LET i == IdDateIdx(row)
    IN  IF i # -1 THEN SetItem(st, 13, row[i + 1]) ELSE st

\* tail = [i for i, v in enumerate(fields) if v], 0-based indices in order.
TailIdx(row) ==
    LET F[k \in 0..Len(row)] ==
            IF k = 0 THEN <<>>
            ELSE IF row[k] # <<>> THEN Append(F[k - 1], k - 1) ELSE F[k - 1]
    IN  F[Len(row)]

\* A mutant of TailSalvage: the last value as the code, the one before it
\* as the reason.
TailSalvageSwapped(st, row) ==
    LET tail == TailIdx(row)
        n == Len(tail)
    IN  IF n = 0 THEN st
        ELSE IF n >= 2
             THEN SetItem(SetItem(st, 15, row[tail[n] + 1]),
                          16, row[tail[n - 1] + 1])
             ELSE SetItem(st, 15, row[tail[n] + 1])

\* The placement of the last non-empty values into slots 15 and 16.
TailSalvage(st, row) ==
    LET tail == TailIdx(row)
        n == Len(tail)
    IN  IF n = 0 THEN st
        ELSE IF n >= 2
             THEN SetItem(SetItem(st, 15, row[tail[n - 1] + 1]),
                          16, row[tail[n] + 1])
             ELSE SetItem(st, 15, row[tail[n] + 1])

\* A mutant of normalize_row: the repair is applied to rows of 19 fields too.
normalize_row_AlwaysRepair(row) ==
    TailSalvage(
        PlaceMandate(
            CopyPrefix(NewFixed(Len(EXPECTED_HEADER)), row), row), row)

\* normalize_row(fields): the returned list and the exception raised.
normalize_row(row) ==
    IF Len(row) = Len(EXPECTED_HEADER)
    THEN [fixed |-> row, exc |-> "none"]
    ELSE TailSalvage(
             PlaceMandate(
                 CopyPrefix(NewFixed(Len(EXPECTED_HEADER)), row), row), row)

---------------------------------------------------------------------------
(* pdf2csv.py                                                              *)

CSV_HEADER ==
    << "STATUS", "END TO END ID", "MERCHANT", "AMOUNT", "DUE DATE",
       "CUSTOMER BIC", "CUSTOMER IBAN", "CUSTOMER NAME", "CUSTOMER ID",
       "ADDITIONAL INFO 1", "ADDITIONAL INFO 2", "IMPORTED DATE",
       "MANDATE REFERENCE", "TRANSACTION INFORMATION",
       "TRANSACTION TYPE NAME", "ERROR CODE", "ERROR REASON",
       "MERCHANT PRODUCT NAME", "HAS CHARGEBACK" >>

DEFAULT_MERCHANT ==
    <<"P","P","S"," ","P","e","r","f","u","n","c","t","i","o"," ","P","a","y","m","e","n","t"," ","S","e","r","v","i","c","e","s"," ","G","m","b","H">>

StrRejected ==
    <<"R","E","J","E","C","T","E","D">>

CodeBlacklist ==
    <<"K","C","2","-","B","L","0","0","1">>

ReasonBlacklist ==
    <<"U","s","e","r"," ","i","n"," ","t","h","e"," ","B","l","a","c","k","l","i","s","t">>

\* ERROR_REASON_MAP.get(code, "")
ERROR_REASON_MAP(code) ==
    IF code = CodeBlacklist THEN ReasonBlacklist ELSE <<>>

Amount3990 ==
    <<"3","9",".","9","0">>

Amount5490 ==
    <<"5","4",".","9","0">>

\* two in PRODUCT_AMOUNT_BY_TWO_DIGIT
InTwoDigitTable(two) == two \in {<<"3", "5">>, <<"1", "5">>, <<"2", "5">>}

\* PRODUCT_AMOUNT_BY_TWO_DIGIT[two]
PRODUCT_AMOUNT_BY_TWO_DIGIT(two) ==
    IF two = <<"3", "5">> THEN Amount3990 ELSE Amount5490

PrefixVplus1new ==
    <<"P","P","S","_","D","B","_","V","P","L","U","S","1","n","e","w">>

PrefixVplus2new ==
    <<"P","P","S","_","D","B","_","V","P","L","U","S","2","n","e","w">>

PrefixVplus3 ==
    <<"P","P","S","_","D","B","_","V","P","L","U","S","3">>

\* PRODUCT_AMOUNT_BY_PREFIX.items(), in the dict's order.
PRODUCT_AMOUNT_BY_PREFIX ==
    << <<PrefixVplus1new, Amount5490>>,
       <<PrefixVplus2new, Amount3990>>,
       <<PrefixVplus3, Amount3990>> >>

\* The least member of a non-empty set of integers.
Least(S) == CHOOSE i \in S : \A j \in S : i <= j

\* find_date_yyyymmdd_in_filename: re.search(r"(20\d{6})", filename), the
\* leftmost match, or "" when there is none.
find_date_yyyymmdd_in_filename(name) ==
    LET hits == {i \in 0..(Len(name) - 8) :
                    /\ StartsWithAt(name, <<"2", "0">>, i)
                    /\ AllDigits(name, i + 2, i + 8)}
    IN  IF hits = {} THEN <<>> ELSE Slice(name, Least(hits), Least(hits) + 8)

\* int(c) of a digit character.
DigitValue(c) ==
    CASE c = "0" -> 0 [] c = "1" -> 1 [] c = "2" -> 2 [] c = "3" -> 3
      [] c = "4" -> 4 [] c = "5" -> 5 [] c = "6" -> 6 [] c = "7" -> 7
      [] c = "8" -> 8 [] c = "9" -> 9

\* str(d) of a number 0..9.
DigitChar(d) == <<"0", "1", "2", "3", "4", "5", "6", "7", "8", "9">>[d + 1]

\* int(s) of a string of digits.
RECURSIVE ToInt(_)
ToInt(s) ==
    IF s = <<>> THEN 0
    ELSE 10 * ToInt(SubSeq(s, 1, Len(s) - 1)) + DigitValue(s[Len(s)])

\* f"{n:0{w}d}" for 0 <= n < 10^w.
RECURSIVE ZeroPad(_, _)
ZeroPad(n, w) ==
    IF w = 0 THEN <<>> ELSE Append(ZeroPad(n \div 10, w - 1), DigitChar(n % 10))

IsLeap(y) == (y % 4 = 0 /\ y % 100 # 0) \/ y % 400 = 0

DaysInMonth(y, m) ==
    IF m = 2 THEN (IF IsLeap(y) THEN 29 ELSE 28)
    ELSE IF m \in {4, 6, 9, 11} THEN 30 ELSE 31

\* dateparser.parse(yyyymmdd) of eight digits: dateutil reads YYYY, MM, DD
\* and builds the datetime; a month or day that no calendar date has makes
\* it raise ParserError.
DateParse(yyyymmdd) ==
    LET y == ToInt(Slice(yyyymmdd, 0, 4))
        m == ToInt(Slice(yyyymmdd, 4, 6))
        d == ToInt(Slice(yyyymmdd, 6, 8))
    IN  IF m \in 1..12 /\ d >= 1 /\ d <= DaysInMonth(y, m)
        THEN [year |-> y, month |-> m, day |-> d, exc |-> "none"]
        ELSE [year |-> 0, month |-> 0, day |-> 0, exc |-> "ParserError"]

\* yyyymmdd_to_first_of_month: the string and the exception raised.
yyyymmdd_to_first_of_month(yyyymmdd) ==
    IF yyyymmdd = <<>> THEN [val |-> <<>>, exc |-> "none"]
    ELSE LET dt == DateParse(yyyymmdd)
         IN  IF dt.exc # "none" THEN [val |-> <<>>, exc |-> dt.exc]
             ELSE [val |-> ZeroPad(dt.year, 4) \o <<"-">> \o ZeroPad(dt.month, 2)
                              \o <<"-", "0", "1">>,
                   exc |-> "none"]

\* The loop over PRODUCT_AMOUNT_BY_PREFIX.items(): the amount of the first
\* prefix the filename starts with, from entry k on; "" when none.
RECURSIVE PrefixAmount(_, _)
PrefixAmount(name, k) ==
    IF k > Len(PRODUCT_AMOUNT_BY_PREFIX) THEN <<>>
    ELSE IF StartsWithAt(name, PRODUCT_AMOUNT_BY_PREFIX[k][1], 0)
         THEN PRODUCT_AMOUNT_BY_PREFIX[k][2]
         ELSE PrefixAmount(name, k + 1)

\* re.search(r"(\d{2})new", filename): the 0-based start of the leftmost
\* match, -1 when there is none.
SearchTwoDigitNew(name) ==
    LET hits == {i \in 0..(Len(name) - 5) :
                    /\ AllDigits(name, i, i + 2)
                    /\ StartsWithAt(name, <<"n", "e", "w">>, i + 2)}
    IN  IF hits = {} THEN -1 ELSE Least(hits)

\* The lookup of the matched two digits.
TwoDigitAmount(name) ==
    LET m == SearchTwoDigitNew(name)
    IN  IF m # -1 /\ InTwoDigitTable(Slice(name, m, m + 2))
        THEN PRODUCT_AMOUNT_BY_TWO_DIGIT(Slice(name, m, m + 2))
        ELSE <<>>

\* A mutant of detect_amount_from_filename: the two-digit code is looked up
\* before the prefixes.
detect_amount_TwoDigitFirst(name) ==
    IF TwoDigitAmount(name) # <<>> THEN TwoDigitAmount(name)
    ELSE PrefixAmount(name, 1)

detect_amount_from_filename(name) ==
    IF PrefixAmount(name, 1) # <<>> THEN PrefixAmount(name, 1)
    ELSE TwoDigitAmount(name)

\* line.split(): the maximal runs of non-whitespace characters, in order.
RECURSIVE SplitFrom(_, _, _, _)
SplitFrom(line, i, cur, acc) ==
    IF i > Len(line)
    THEN (IF cur = <<>> THEN acc ELSE Append(acc, cur))
    ELSE IF IsSpace(line[i])
         THEN SplitFrom(line, i + 1, <<>>,
                        IF cur = <<>> THEN acc ELSE Append(acc, cur))
         ELSE SplitFrom(line, i + 1, Append(cur, line[i]), acc)

Split(line) == SplitFrom(line, 1, <<>>, <<>>)

\* " ".join(parts)
RECURSIVE JoinSpace(_)
JoinSpace(parts) ==
    IF parts = <<>> THEN <<>>
    ELSE IF Len(parts) = 1 THEN parts[1]
    ELSE parts[1] \o <<" ">> \o JoinSpace(SubSeq(parts, 2, Len(parts)))

\* re.fullmatch(r"\d+", s)
FullMatchDigits(s) == s # <<>> /\ AllDigits(s, 0, Len(s))

WordDateiname ==
    <<"D","a","t","e","i","n","a","m","e">>

WordName ==
    <<"N","a","m","e">>

WordKundennummer ==
    <<"K","u","n","d","e","n","n","u","m","m","e","r">>

WordFehler ==
    <<"F","e","h","l","e","r">>

\* header_regex.match(line): ^Dateiname\s+Name\s+Kundennummer\s+Fehler$
\* Each \s+ takes its whole whitespace run: the word after it starts with a
\* character that is not whitespace.
header_regex(line) ==
    LET p1 == Len(WordDateiname)
        p2 == p1 + SpaceRun(line, p1)
        p3 == p2 + Len(WordName)
        p4 == p3 + SpaceRun(line, p3)
        p5 == p4 + Len(WordKundennummer)
        p6 == p5 + SpaceRun(line, p5)
        p7 == p6 + Len(WordFehler)
    IN  /\ StartsWithAt(line, WordDateiname, 0)
        /\ p2 > p1
        /\ StartsWithAt(line, WordName, p2)
        /\ p4 > p3
        /\ StartsWithAt(line, WordKundennummer, p4)
        /\ p6 > p5
        /\ StartsWithAt(line, WordFehler, p6)
        /\ AtDollar(line, p7)

\* A mutant of CustomerName: the slice runs up to the last token, parts[1:-1].
CustomerNameToId(parts) == JoinSpace(SubSeq(parts, 2, Len(parts) - 1))

\* customer_name = " ".join(parts[1:-2])
CustomerName(parts) == JoinSpace(SubSeq(parts, 2, Len(parts) - 2))

\* The record built from a line's tokens.
Record(filename_token, customer_name, customer_id, error_code, id_date_value) ==
    [k \in {CSV_HEADER[i] : i \in 1..Len(CSV_HEADER)} |->
        CASE k = "STATUS" -> StrRejected
          [] k = "MERCHANT" -> DEFAULT_MERCHANT
          [] k = "AMOUNT" -> detect_amount_from_filename(filename_token)
          [] k = "CUSTOMER NAME" -> customer_name
          [] k = "CUSTOMER ID" -> customer_id
          [] k = "TRANSACTION INFORMATION" -> id_date_value
          [] k = "ERROR CODE" -> error_code
          [] k = "ERROR REASON" -> ERROR_REASON_MAP(error_code)
          [] OTHER -> <<>>]

\* One pass of the loop body over a line: "skip" (continue), "append" with
\* the record, or "raise" with the exception.
LineBody(line) ==
    LET parts == Split(line)
        n == Len(parts)
    IN  IF n < 4 THEN [do |-> "skip"]
        ELSE
          LET filename_token == parts[1]
              error_code == parts[n]
              customer_id == parts[n - 1]
              customer_name == CustomerName(parts)
          IN  IF ~FullMatchDigits(customer_id) THEN [do |-> "skip"]
              ELSE
                LET yyyymmdd == find_date_yyyymmdd_in_filename(filename_token)
                    mandate_date == yyyymmdd_to_first_of_month(yyyymmdd)
                    id_date_value ==
                        IF mandate_date.val # <<>>
                        THEN customer_id \o <<"-">> \o mandate_date.val
                        ELSE customer_id
                IN  IF mandate_date.exc # "none"
                    THEN [do |-> "raise", exc |-> mandate_date.exc]
                    ELSE [do |-> "append",
                          record |-> Record(filename_token, customer_name,
                                            customer_id, error_code,
                                            id_date_value)]

---------------------------------------------------------------------------
(* The rows normalize_row is applied to.                                   *)

\* The longest row.  Rows longer than the 19-column header need 20.
MaxRowLen == 20

TokA == <<"A">>

\* Mandate-like: six digits, then a date.
TokMandate ==
    <<"1","2","3","4","5","6","-","2","0","2","4","-","0","1","-","0","1">>

\* Mandate-like with a longer customer id.
TokMandateLong ==
    <<"9","9","9","9","9","9","9","9","-","2","0","2","4","-","0","3","-","0","1">>

\* Five digits only: not mandate-like.
TokShortId ==
    <<"1","2","3","4","5","-","2","0","2","4","-","0","1","-","0","1">>

\* A mandate-like value followed by a newline, as a quoted CSV field holds.
TokMandateNewline ==
    <<"1","2","3","4","5","6","-","2","0","2","4","-","0","1","-","0","1","\n">>

\* A mandate-like value followed by another character: not mandate-like.
TokMandateJunk ==
    <<"1","2","3","4","5","6","-","2","0","2","4","-","0","1","-","0","1","x">>

RowFillers == {<<>>, TokA}

RowFirstTokens == {<<>>, TokMandate, TokMandateNewline, TokShortId}

RowSecondTokens == {TokA, TokMandateLong, TokMandateJunk}

\* A row of n fields: f throughout, a in place i and b in place j (place 0
\* is no place; b wins when i = j).
RowOf(n, f, i, a, j, b) ==
    [k \in 1..n |-> IF k = j THEN b ELSE IF k = i THEN a ELSE f]

---------------------------------------------------------------------------
(* The values of the variables of a function that is not running.          *)

NormIdle == fields = <<>> /\ fixed = <<>>
ParseIdle == lines = <<>> /\ idx = 0 /\ records = <<>> /\ returned = <<>>
MainIdle == argv = 0 /\ src = <<>> /\ reader = 0 /\ written = <<>> /\ rc = -1
AmountIdle == filename = <<>> /\ amount = <<>>

---------------------------------------------------------------------------
(* normalize_row applied to a row.                                         *)

InitNormalize ==
    /\ pc = "call"
    /\ exc = "none"
    /\ \E n \in 0..MaxRowLen, f \in RowFillers :
         \E i \in 0..n, j \in 0..n, a \in RowFirstTokens, b \in RowSecondTokens :
            fields = RowOf(n, f, i, a, j, b)
    /\ fixed = <<>>
    /\ ParseIdle /\ MainIdle /\ AmountIdle

NormalizeRow ==
    /\ pc = "call"
    /\ LET r == normalize_row(fields)
       IN  /\ exc' = r.exc
           /\ fixed' = IF r.exc = "none" THEN r.fixed ELSE <<>>
           /\ pc' = IF r.exc = "none" THEN "return" ELSE "raised"
    /\ UNCHANGED <<fields, parseVars, mainVars, amountVars>>

NextNormalize == NormalizeRow

SpecNormalize == InitNormalize /\ [][NextNormalize]_vars

---------------------------------------------------------------------------
(* The text lines parse_records_from_lines is applied to.                  *)

\* The most lines of one input.
MaxLines == 2

\* The line of the documentation's example.
LineExample ==
    <<"P","P","S","_","D","B","_","V","P","L","U","S","1","n","e","w","_","2","0","2","4","0","3","0","1",".","p","d","f"," ","J","a","n","e"," ","D","o","e"," ","1","2","3","4","5","6"," ","K","C","2","-","B","L","0","0","1">>

\* Four tokens, no date in the filename, an unknown error code.
LineFourTokens ==
    <<"x",".","p","d","f"," ","J","a","n","e"," ","1","2","3","4","5","6"," ","E","9">>

\* Three tokens only.
LineThreeTokens ==
    <<"x",".","p","d","f"," ","1","2","3","4","5","6"," ","K","C","2","-","B","L","0","0","1">>

\* A customer id that is not all digits.
LineBadId ==
    <<"R","2","5","n","e","w","_","2","0","2","3","1","1","3","0",".","p","d","f"," ","J","a","n","e"," ","D","o","e"," ","1","2","a","4","5","6"," ","K","C","2","-","B","L","0","0","1">>

\* Whitespace runs between the tokens and around the line.
LineRuns ==
    <<" "," ","a","1","5","n","e","w",".","p","d","f"," ","\t"," ","A","n","n","a"," "," ","M","a","r","i","a","\t","M","u","s","t","e","r"," "," "," ","7","7"," "," ","K","C","2","-","B","L","0","0","1"," ">>

\* Four tokens with a two-token gap: the name is one token; a date in December.
LineNoName ==
    <<"9","9","n","e","w","_","3","5","n","e","w","_","2","0","2","3","1","2","3","1"," ","M","a","x"," ","4","2"," ","X">>

\* An id and a code that are both digits.
LineEmptyName ==
    <<"P","P","S","_","D","B","_","V","P","L","U","S","3","_","2","0","2","0","0","2","2","9"," ","B","o"," ","7"," ","8">>

\* A filename whose eight digits name month 13.
LineMonth13 ==
    <<"R","3","5","n","e","w","_","2","0","2","4","1","3","0","1",".","p","d","f"," ","J","a","n","e"," ","D","o","e"," ","1","2","3","4","5","6"," ","K","C","2","-","B","L","0","0","1">>

\* A filename whose eight digits name the 30th of February.
LineFeb30 ==
    <<"X","2","0","2","4","0","2","3","0"," ","L","i"," ","5"," ","K","C","2","-","B","L","0","0","1">>

\* The German header caption.
LineHeader ==
    <<"D","a","t","e","i","n","a","m","e"," ","N","a","m","e"," ","K","u","n","d","e","n","n","u","m","m","e","r"," ","F","e","h","l","e","r">>

\* The caption with whitespace runs between its words.
LineHeaderRuns ==
    <<"D","a","t","e","i","n","a","m","e"," "," ","N","a","m","e","\t","K","u","n","d","e","n","n","u","m","m","e","r"," "," "," ","F","e","h","l","e","r">>

\* Caption words around a numeric id.
LineHeaderLike ==
    <<"D","a","t","e","i","n","a","m","e"," ","N","a","m","e"," ","1","2","3"," ","F","e","h","l","e","r">>

\* The caption followed by an id and a code.
LineHeaderMore ==
    <<"D","a","t","e","i","n","a","m","e"," ","N","a","m","e"," ","K","u","n","d","e","n","n","u","m","m","e","r"," ","F","e","h","l","e","r"," ","9"," ","E","1">>

\* Two dates in the filename, the id a long number.
LineTwoDates ==
    <<"b","_","2","0","2","5","0","1","1","5","_","2","0","2","4","0","3","0","1"," ","E","v","a"," ","1","2","3","4","5","6","7"," ","K","C","2","-","B","L","0","0","2">>

LineInputs ==
    {<<>>,
     LineExample,
     LineFourTokens,
     LineThreeTokens,
     LineBadId,
     LineRuns,
     LineNoName,
     LineEmptyName,
     LineMonth13,
     LineFeb30,
     LineHeader,
     LineHeaderRuns,
     LineHeaderLike,
     LineHeaderMore,
     LineTwoDates}

\* The sequences of at most n members of S.
SeqsUpTo(S, n) == UNION {[1..k -> S] : k \in 0..n}

---------------------------------------------------------------------------
(* parse_records_from_lines applied to a list of lines.                    *)

InitParse ==
    /\ pc = "call"
    /\ exc = "none"
    /\ lines \in SeqsUpTo(LineInputs, MaxLines)
    /\ idx = 0
    /\ records = <<>>
    /\ returned = <<>>
    /\ NormIdle /\ MainIdle /\ AmountIdle

\* if not lines: return records
ParseEmpty ==
    /\ pc = "call"
    /\ lines = <<>>
    /\ returned' = records
    /\ pc' = "return"
    /\ UNCHANGED <<exc, lines, idx, records, normVars, mainVars, amountVars>>

\* start_index: 1 when the first line matches the header, else 0.
ParseStart ==
    /\ pc = "call"
    /\ lines # <<>>
    /\ idx' = IF header_regex(lines[1]) THEN 1 ELSE 0
    /\ pc' = "loop"
    /\ UNCHANGED <<exc, lines, records, returned, normVars, mainVars, amountVars>>

\* One pass of  for line in lines[start_index:]
ParseLine ==
    /\ pc = "loop"
    /\ idx < Len(lines)
    /\ LET b == LineBody(lines[idx + 1])
       IN  /\ records' = IF b.do = "append" THEN Append(records, b.record)
                         ELSE records
           /\ exc' = IF b.do = "raise" THEN b.exc ELSE exc
           /\ pc' = IF b.do = "raise" THEN "raised" ELSE "loop"
    /\ idx' = idx + 1
    /\ UNCHANGED <<lines, returned, normVars, mainVars, amountVars>>

\* return records
ParseReturn ==
    /\ pc = "loop"
    /\ idx >= Len(lines)
    /\ returned' = records
    /\ pc' = "return"
    /\ UNCHANGED <<exc, lines, idx, records, normVars, mainVars, amountVars>>

NextParse == ParseEmpty \/ ParseStart \/ ParseLine \/ ParseReturn

SpecParse == InitParse /\ [][NextParse]_vars

---------------------------------------------------------------------------
(* detect_amount_from_filename applied to a filename token.                *)

\* How a filename starts: a campaign prefix, part of one, or none.
NameHeads ==
    { <<>>,
      <<"P","P","S","_","D","B","_","V","P","L","U","S","1","n","e","w">>,
      <<"P","P","S","_","D","B","_","V","P","L","U","S","2","n","e","w">>,
      <<"P","P","S","_","D","B","_","V","P","L","U","S","3">>,
      <<"P","P","S","_","D","B","_","V","P","L","U","S">>,
      <<"x","P","P","S","_","D","B","_","V","P","L","U","S","3">>,
      <<"1">> }

\* A two-digit code before "new", or nearly one.
NameMiddles ==
    { <<>>,
      <<"3","5","n","e","w">>,
      <<"1","5","n","e","w">>,
      <<"2","5","n","e","w">>,
      <<"9","9","n","e","w">>,
      <<"5","n","e","w">>,
      <<"3","5","n","e">>,
      <<"_","3","5","_","n","e","w">> }

\* How a filename ends.
NameEnds ==
    { <<>>,
      <<"_","3","5","n","e","w">>,
      <<"_","2","0","2","4","0","3","0","1",".","p","d","f">>,
      <<"1","5","n","e","w",".","p","d","f">> }

InitAmount ==
    /\ pc = "call"
    /\ exc = "none"
    /\ \E h \in NameHeads, m \in NameMiddles, e \in NameEnds :
           filename = h \o m \o e
    /\ amount = <<>>
    /\ NormIdle /\ ParseIdle /\ MainIdle

DetectAmount ==
    /\ pc = "call"
    /\ amount' = detect_amount_from_filename(filename)
    /\ pc' = "return"
    /\ UNCHANGED <<exc, filename, normVars, parseVars, mainVars>>

NextAmount == DetectAmount

SpecAmount == InitAmount /\ [][NextAmount]_vars

---------------------------------------------------------------------------
(* fix_csv.main applied to an input CSV.  csv.reader hands main the rows   *)
(* of the input one by one; csv.writer receives the rows main writes.      *)

\* The most rows of one input CSV, its header line included.
MaxRows == 3

\* The row of the documentation's example: 12 fields.
RowExample ==
    << <<"A">>, <<"B">>, <<"C">>, <<"D">>, <<"E">>, <<"F">>, <<"G">>, <<"H">>,
       <<"I">>, <<"X">>, TokMandateLong, <<"Y">> >>

CsvRows ==
    { <<>>,
      <<TokA>>,
      RowExample,
      RowOf(19, TokA, 1, TokMandate, 0, TokA),
      RowOf(19, <<>>, 14, TokMandate, 19, TokA),
      RowOf(20, <<>>, 3, TokMandateNewline, 20, TokMandateLong) }

InitMain ==
    /\ pc = "call"
    /\ exc = "none"
    /\ argv \in 0..3
    /\ src \in SeqsUpTo(CsvRows, MaxRows)
    /\ reader = 0
    /\ written = <<>>
    /\ rc = -1
    /\ NormIdle /\ ParseIdle /\ AmountIdle

\* if len(argv) < 2: print the usage, return 2
MainUsage ==
    /\ pc = "call"
    /\ argv < 2
    /\ rc' = 2
    /\ pc' = "return"
    /\ UNCHANGED <<exc, argv, src, reader, written, normVars, parseVars, amountVars>>

\* The files are opened and the reader and the writer made.
MainOpen ==
    /\ pc = "call"
    /\ argv >= 2
    /\ pc' = "opened"
    /\ UNCHANGED <<exc, argv, src, reader, written, rc, normVars, parseVars, amountVars>>

\* writer.writerow(EXPECTED_HEADER)
MainWriteHeader ==
    /\ pc = "opened"
    /\ written' = Append(written, EXPECTED_HEADER)
    /\ pc' = "header"
    /\ UNCHANGED <<exc, argv, src, reader, rc, normVars, parseVars, amountVars>>

\* A mutant of MainReadHeader: the input's first line is not consumed.
MainReadHeaderKept ==
    /\ pc = "header"
    /\ pc' = "loop"
    /\ UNCHANGED <<exc, argv, src, reader, written, rc, normVars, parseVars, amountVars>>

\* header = next(reader, None)
MainReadHeader ==
    /\ pc = "header"
    /\ reader' = IF reader < Len(src) THEN reader + 1 ELSE reader
    /\ pc' = "loop"
    /\ UNCHANGED <<exc, argv, src, written, rc, normVars, parseVars, amountVars>>

\* One pass of  for fields in reader
MainRow ==
    /\ pc = "loop"
    /\ reader < Len(src)
    /\ LET r == normalize_row(src[reader + 1])
       IN  /\ written' = IF r.exc = "none" THEN Append(written, r.fixed)
                         ELSE written
           /\ exc' = r.exc
           /\ pc' = IF r.exc = "none" THEN "loop" ELSE "raised"
    /\ reader' = reader + 1
    /\ UNCHANGED <<argv, src, rc, normVars, parseVars, amountVars>>

\* return 0
MainReturn ==
    /\ pc = "loop"
    /\ reader >= Len(src)
    /\ rc' = 0
    /\ pc' = "return"
    /\ UNCHANGED <<exc, argv, src, reader, written, normVars, parseVars, amountVars>>

NextMain ==
    \/ MainUsage \/ MainOpen \/ MainWriteHeader \/ MainReadHeader
    \/ MainRow \/ MainReturn

SpecMain == InitMain /\ [][NextMain]_vars

---------------------------------------------------------------------------
(* Properties of normalize_row.                                            *)

\* The mandate-like shape: six or more digits, "-", four digits, "-", two
\* digits, "-", two digits, and nothing else.
MandateShape(v) ==
    \E n \in 6..Len(v) :
        /\ Len(v) = n + 11
        /\ \A k \in 1..n : v[k] \in Digits
        /\ v[n + 1] = "-" /\ v[n + 6] = "-" /\ v[n + 9] = "-"
        /\ \A k \in {n + 2, n + 3, n + 4, n + 5, n + 7, n + 8, n + 10, n + 11} :
               v[k] \in Digits

\* What Python's $ admits as well: the shape followed by one newline.
MandateShapeOrNewline(v) ==
    \/ MandateShape(v)
    \/ Len(v) >= 1 /\ v[Len(v)] = "\n" /\ MandateShape(SubSeq(v, 1, Len(v) - 1))

\* The first place of row that holds a value satisfying P, 0 when none does.
FirstPlace(row, P(_)) ==
    IF \E k \in 1..Len(row) : P(row[k])
    THEN CHOOSE k \in 1..Len(row) :
             P(row[k]) /\ \A m \in 1..(k - 1) : ~P(row[m])
    ELSE 0

NonEmpty(v) == v # <<>>

\* The non-empty fields of a row, in their order.
NonEmptyFields(row) == SelectSeq(row, NonEmpty)

Returned == pc = "return"

Finished == pc # "call"

\* C1: for every input row, normalize_row returns exactly 19 fields and
\* raises no exception.
C1_Always19Fields ==
    Finished => (pc = "return" /\ exc = "none" /\ Len(fixed) = 19)

\* C1's case: rows longer and shorter than the header were normalised.
C1_Witness ==
    /\ Returned
    /\ Len(fields) > 19
    /\ fixed[14] # <<>>
    /\ fixed[16] # <<>>

\* C2 as stated: whatever the row's length, slot 13 holds the first token of
\* the mandate-like shape (whole-string match).
C2_AsStated ==
    (Returned /\ FirstPlace(fields, MandateShape) # 0)
        => (Len(fixed) >= 14 /\ fixed[14] = fields[FirstPlace(fields, MandateShape)])

\* C2 as amended: for a row whose length is not 19, slot 13 holds the first
\* token that is of the mandate-like shape or of that shape followed by one
\* newline.
C2_MandateInSlot13 ==
    (Returned /\ Len(fields) # 19 /\ FirstPlace(fields, MandateShapeOrNewline) # 0)
        => fixed[14] = fields[FirstPlace(fields, MandateShapeOrNewline)]

\* C2's case: two different mandate-like tokens, the first of them relocated
\* from another place into slot 13.
C2_Witness ==
    /\ Returned
    /\ Len(fields) > 19
    /\ \E i, j \in 1..Len(fields) :
           /\ i < j /\ i # 14
           /\ MandateShape(fields[i]) /\ MandateShape(fields[j])
           /\ fields[i] # fields[j]
           /\ fields[14] # fields[i]
           /\ fixed[14] = fields[i]

\* C3: a row of exactly 19 fields is returned unchanged.
C3_Identity19 ==
    (Returned /\ Len(fields) = 19) => fixed = fields

\* C3's case: a row of 19 fields whose mandate-like token is not in slot 13
\* and whose first fields and last non-empty fields a repair would move.
C3_Witness ==
    /\ Returned
    /\ Len(fields) = 19
    /\ FirstPlace(fields, MandateShape) \notin {0, 14}
    /\ ~MandateShape(fields[14])
    /\ fields[19] # <<>>
    /\ fixed = fields

\* C4: for a row whose length is not 19, slots 15 and 16 hold the last two
\* non-empty fields in order; slot 15 alone holds an only one; both are empty
\* when every field is empty.
C4_TailSalvage ==
    (Returned /\ Len(fields) # 19) =>
        LET N == NonEmptyFields(fields)
            n == Len(N)
        IN  /\ n >= 2 => (fixed[16] = N[n - 1] /\ fixed[17] = N[n])
            /\ n = 1 => (fixed[16] = N[1] /\ fixed[17] = <<>>)
            /\ n = 0 => (fixed[16] = <<>> /\ fixed[17] = <<>>)

\* C4's case: three or more non-empty fields, the last two different, one of
\* them mandate-like and one within the first 9 fields.
C4_Witness ==
    /\ Returned
    /\ Len(fields) <= 9
    /\ Len(NonEmptyFields(fields)) >= 3
    /\ fixed[16] # fixed[17]
    /\ MandateShape(fixed[16])
    /\ fixed[17] = fields[Len(fields)]

\* C5: for a row whose length is not 19, slots 0..8 hold the row's first
\* fields at the same places, and the empty string beyond the row's length.
C5_StablePrefix ==
    (Returned /\ Len(fields) # 19) =>
        \A k \in 1..9 :
            fixed[k] = IF k <= Len(fields) THEN fields[k] ELSE <<>>

\* C5's case: a long row with all of the first 9 fields set, a mandate-like
\* token among them, and the later steps having written slots 13, 15, 16.
C5_Witness ==
    /\ Returned
    /\ Len(fields) > 19
    /\ \A k \in 1..9 : fields[k] # <<>>
    /\ \E k \in 1..9 : MandateShape(fields[k])
    /\ fixed[14] # <<>> /\ fixed[16] # <<>> /\ fixed[17] # <<>>
    /\ fixed[9] = fields[9]

---------------------------------------------------------------------------
(* Properties of parse_records_from_lines.                                 *)

\* The places where a whitespace-separated token of a line starts.
TokenStarts(line) ==
    {a \in 1..Len(line) :
        line[a] \notin Whitespace /\ (a = 1 \/ line[a - 1] \in Whitespace)}

\* The place where the token that starts at a ends.
TokenEnd(line, a) ==
    CHOOSE b \in a..Len(line) :
        /\ \A k \in a..b : line[k] \notin Whitespace
        /\ b = Len(line) \/ line[b + 1] \in Whitespace

\* The whitespace-separated tokens of a line, in order.
Tokens(line) ==
    LET starts == TokenStarts(line)
    IN  [k \in 1..Cardinality(starts) |->
            LET a == CHOOSE x \in starts :
                         Cardinality({y \in starts : y < x}) = k - 1
            IN  SubSeq(line, a, TokenEnd(line, a))]

OnlyDigits(tok) == tok # <<>> /\ \A k \in 1..Len(tok) : tok[k] \in Digits

\* A line that is to yield a record: at least 4 tokens, the second-to-last
\* all digits.
Qualifies(line) ==
    LET t == Tokens(line)
    IN  Len(t) >= 4 /\ OnlyDigits(t[Len(t) - 1])

\* The tokens t[a..b] joined by single spaces.
JoinedBySpaces(t, a, b) ==
    LET F[k \in (a - 1)..b] ==
            IF k < a THEN <<>>
            ELSE IF k = a THEN t[k]
            ELSE F[k - 1] \o <<" ">> \o t[k]
    IN  IF b < a THEN <<>> ELSE F[b]

\* The lines of the loop that have been passed over and qualify.
QualifyingSoFar == SelectSeq(SubSeq(lines, 1, idx), Qualifies)

\* The 1-based places of a filename where "20" and six digits stand.
DatePlaces(name) ==
    {i \in 1..(Len(name) - 7) :
        /\ name[i] = "2" /\ name[i + 1] = "0"
        /\ \A k \in (i + 2)..(i + 7) : name[k] \in Digits}

\* TRANSACTION INFORMATION as claimed for a line: the customer id, and when
\* the filename holds such eight digits, "-", their year, "-", their month
\* and "-01".
ClaimedTransactionInfo(line) ==
    LET t == Tokens(line)
        cid == t[Len(t) - 1]
        places == DatePlaces(t[1])
    IN  IF places = {} THEN cid
        ELSE LET i == Least(places)
             IN  cid \o <<"-">> \o SubSeq(t[1], i, i + 3) \o <<"-">>
                     \o SubSeq(t[1], i + 4, i + 5) \o <<"-", "0", "1">>

ParseFinished == pc \in {"return", "raised"}

\* C6 as stated: for every list of lines, no error is raised and the records
\* returned are, in order, one for each line that has at least 4 tokens and
\* an all-digit second-to-last token (the header caption is no such line).
C6_AsStated ==
    ParseFinished =>
        /\ pc = "return" /\ exc = "none"
        /\ LET q == SelectSeq(lines, Qualifies)
           IN  /\ Len(returned) = Len(q)
               /\ \A k \in 1..Len(q) :
                      LET t == Tokens(q[k])
                      IN  /\ returned[k]["CUSTOMER ID"] = t[Len(t) - 1]
                          /\ returned[k]["ERROR CODE"] = t[Len(t)]
                          /\ returned[k]["CUSTOMER NAME"]
                                 = JoinedBySpaces(t, 2, Len(t) - 2)

\* What the loop does keep when it returns: one record per qualifying line,
\* in order.
RecordsFollowLinesOnReturn ==
    pc = "return" =>
        LET q == SelectSeq(lines, Qualifies)
        IN  /\ Len(returned) = Len(q)
            /\ \A k \in 1..Len(q) :
                   LET t == Tokens(q[k])
                   IN  /\ returned[k]["CUSTOMER ID"] = t[Len(t) - 1]
                       /\ returned[k]["ERROR CODE"] = t[Len(t)]
                       /\ returned[k]["CUSTOMER NAME"]
                              = JoinedBySpaces(t, 2, Len(t) - 2)

\* C7: a pass of the loop that appends a record read a line of n >= 4 tokens
\* and the record has CUSTOMER ID = t[n-2], ERROR CODE = t[n-1], CUSTOMER
\* NAME = t[1..n-3] joined by single spaces, ERROR REASON = the table's
\* reason for t[n-1], or "" when the table has none.
C7_TokenAssignment ==
    [][ (pc = "loop" /\ Len(records') = Len(records) + 1) =>
            LET t == Tokens(lines[idx + 1])
                n == Len(t)
                r == records'[Len(records')]
            IN  /\ n >= 4
                /\ exc' = "none"
                /\ r["CUSTOMER ID"] = t[n - 1]
                /\ r["ERROR CODE"] = t[n]
                /\ r["CUSTOMER NAME"] = JoinedBySpaces(t, 2, n - 2)
                /\ r["ERROR REASON"] =
                       (IF t[n] = CodeBlacklist THEN ReasonBlacklist ELSE <<>>)
      ]_vars

\* C7's case: records were returned for a line with a name of several
\* tokens and a known error code, and for a line with an unknown code.
C7_Witness ==
    /\ pc = "return"
    /\ Len(returned) = 2
    /\ \E k \in 1..2 :
           /\ returned[k]["ERROR REASON"] = ReasonBlacklist
           /\ \E i \in 1..Len(returned[k]["CUSTOMER NAME"]) :
                  returned[k]["CUSTOMER NAME"][i] = " "
    /\ \E k \in 1..2 :
           /\ returned[k]["ERROR REASON"] = <<>>
           /\ returned[k]["ERROR CODE"] # <<>>

\* C8 as stated: every line passed over that qualifies has produced its
\* record without an error, with TRANSACTION INFORMATION = customer id, then
\* "-YYYY-MM-01" from the filename's "20" and six digits when it has them.
C8_AsStated ==
    LET q == QualifyingSoFar
    IN  /\ exc = "none"
        /\ Len(records) = Len(q)
        /\ \A k \in 1..Len(q) :
               records[k]["TRANSACTION INFORMATION"] = ClaimedTransactionInfo(q[k])

\* What the loop does while no filename's eight digits fail to parse.
TransactionInfoWhileNoError ==
    exc = "none" =>
        LET q == QualifyingSoFar
        IN  /\ Len(records) = Len(q)
            /\ \A k \in 1..Len(q) :
                   records[k]["TRANSACTION INFORMATION"]
                       = ClaimedTransactionInfo(q[k])

---------------------------------------------------------------------------
(* Properties of detect_amount_from_filename.                              *)

\* The campaign prefixes a filename starts with, as entries of the table.
PrefixEntries(name) ==
    {k \in 1..Len(PRODUCT_AMOUNT_BY_PREFIX) :
        LET p == PRODUCT_AMOUNT_BY_PREFIX[k][1]
        IN  Len(p) <= Len(name) /\ SubSeq(name, 1, Len(p)) = p}

\* The 1-based places of a filename where two digits stand right before "new".
CodePlaces(name) ==
    {i \in 1..(Len(name) - 4) :
        /\ name[i] \in Digits /\ name[i + 1] \in Digits
        /\ SubSeq(name, i + 2, i + 4) = <<"n", "e", "w">>}

\* The second table.
TwoDigitTable ==
    (<<"3", "5">> :> Amount3990) @@ (<<"1", "5">> :> Amount5490)
        @@ (<<"2", "5">> :> Amount5490)

\* The places of two-digit codes before "new" that the second table maps.
MappedCodePlaces(name) ==
    {i \in CodePlaces(name) : SubSeq(name, i, i + 1) \in DOMAIN TwoDigitTable}

---------------------------------------------------------------------------
(* Properties of fix_csv.main.                                             *)

\* C10: with two arguments, the output starts with the fixed 19-column
\* header, which is followed by one row for each input row after the
\* input's first, in input order; every row written has 19 fields; on
\* return all of them are written, the header also for an empty input.
C10_HeaderThenRows ==
    argv = 2 =>
        /\ pc \in {"header", "loop", "return"} =>
               (Len(written) >= 1 /\ written[1] = EXPECTED_HEADER)
        /\ \A k \in 1..Len(written) : Len(written[k]) = 19
        /\ \A k \in 2..Len(written) :
               /\ k <= Len(src)
               /\ written[k] = normalize_row(src[k]).fixed
        /\ pc \notin {"raised"}
        /\ pc = "return" =>
               /\ rc = 0
               /\ Len(written) = (IF Len(src) = 0 THEN 1 ELSE Len(src))

\* C10's case: an input of a header line and two data rows, one of them not
\* of 19 fields, was written out in full.
C10_Witness ==
    /\ argv = 2
    /\ pc = "return"
    /\ Len(src) = 3
    /\ Len(written) = 3
    /\ Len(src[2]) < 19
    /\ Len(src[3]) > 19
    /\ src[2] # src[1]

===========================================================================
